---------------------------- MODULE Spec2Model ----------------------------
(***************************************************************************)
(* A model of evtxview.py: the lazily decoded EventRecord, the table model *)
(* EvtxViewModel with its id index, the EvtxView lookup by record id, and   *)
(* the MainWindow handlers for tabs and for the search dialog.              *)
(*                                                                         *)
(* Text is a sequence of one-character strings; XML markup that no search  *)
(* term of the model can straddle is kept as one symbol ("<Event>").       *)
(* Python indices are 0-based and are kept 0-based here.                    *)
(***************************************************************************)
EXTENDS Integers, Sequences, FiniteSets, TLC

(***************************************************************************)
(* Bounds of the model.                                                     *)
(***************************************************************************)
MaxRecords == 3      \* items one file delivers
MaxId      == 3      \* record ids are 1..MaxId
MaxTabs    == 2      \* tabs open at the same time

None == -1           \* Python's None where a row number is expected

(***************************************************************************)
(* Python str operations on text.                                           *)
(***************************************************************************)
\* s[k:]
slice_from(s, k) == SubSeq(s, k + 1, Len(s))

\* s.startswith(sub) at 0-based offset k
match_at(s, sub, k) ==
    /\ k + Len(sub) <= Len(s)
    /\ \A j \in 1..Len(sub) : s[k + j] = sub[j]

\* s.find(sub): the lowest 0-based index where sub occurs, -1 when it does not
find(s, sub) ==
    LET hits == {k \in 0..Len(s) : match_at(s, sub, k)}
    IN  IF hits = {} THEN -1 ELSE CHOOSE k \in hits : \A h \in hits : k <= h

\* sub in s
contains(sub, s) == find(s, sub) # -1


(***************************************************************************)
(* What the parser library hands over: PyEvtxParser(filename).records()     *)
(* yields dicts with event_record_id, timestamp and data (the XML text,     *)
(* with or without a leading processing instruction), and raises on a       *)
(* record it cannot read (an item with error = TRUE).                       *)
(***************************************************************************)
ProcessingInstruction == <<"<?", "x", "m", "l", "?", ">", "\n">>

Event(provider, eventid, level, eventdata) ==
    <<"<Event>", "<System>", "<Provider Name='">> \o provider \o
    <<"'/>", "<EventID>">> \o eventid \o
    <<"</EventID>", "<Level>">> \o level \o
    <<"</Level>", "</System>", "<EventData>">> \o eventdata \o
    <<"</EventData>", "</Event>">>

Payloads ==
    << ProcessingInstruction \o Event(<<"S", "e", "c">>, <<"4", "6">>, <<"4">>, <<"a", "b">>),
       Event(<<"K", "e", "r">>, <<"1">>, <<"7">>, <<"S", "e">>),
       ProcessingInstruction \o Event(<<"S", "y", "s">>, <<"4">>, <<"0">>, <<>>) >>

\* the k-th item of a file: its timestamp is its position, its payload cycles
ParserRecord(id, k) ==
    [error |-> FALSE, event_record_id |-> id, timestamp |-> k,
     data |-> Payloads[((k - 1) % Len(Payloads)) + 1]]

ParserFailure(k) ==
    [error |-> TRUE, event_record_id |-> 0, timestamp |-> k, data |-> <<>>]

\* every sequence of at most MaxRecords items over the ids 1..MaxId and failures
ParserOutputs ==
    UNION { { [k \in 1..n |-> IF c[k] = 0 THEN ParserFailure(k) ELSE ParserRecord(c[k], k)] :
                c \in [1..n -> 0..MaxId] } : n \in 0..MaxRecords }

(***************************************************************************)
(* lxml's etree.XML on the text, and the XmlElement wrapper (lines 14-32).  *)
(***************************************************************************)
Whitespace == {"\n", " "}

RECURSIVE lstrip(_)
lstrip(s) == IF s # <<>> /\ Head(s) \in Whitespace THEN lstrip(Tail(s)) ELSE s

\* the text between the first `open` and the first `close` symbol
between(s, open, close) ==
    SubSeq(s, find(s, <<open>>) + 2, find(s, <<close>>))

Leaf(tag, text, attrib) == [tag |-> tag, text |-> text, attrib |-> attrib]

NoAttrib == [a \in {} |-> <<>>]

\* the tree of a well-formed Event element, a syntax error otherwise
xml_tree(s, provider, eventid, level, evdata) ==
    IF s = Event(provider, eventid, level, evdata)
    THEN [ok |-> TRUE,
          tag |-> "{ns}Event",
          children |->
            << [tag |-> "{ns}System",
                children |->
                  << Leaf("{ns}Provider", <<>>, [a \in {"Name"} |-> provider]),
                     Leaf("{ns}EventID", eventid, NoAttrib),
                     Leaf("{ns}Level", level, NoAttrib) >>],
               [tag |-> "{ns}EventData",
                children |-> << Leaf("{ns}Data", evdata, NoAttrib) >>] >>]
    ELSE [ok |-> FALSE, tag |-> "", children |-> <<>>]

xml_document(s) ==
    xml_tree(s, between(s, "<Provider Name='", "'/>"),
                between(s, "<EventID>", "</EventID>"),
                between(s, "<Level>", "</Level>"),
                between(s, "<EventData>", "</EventData>"))

\* etree.XML(text): leading whitespace is allowed before the root element
etree_XML(text) == xml_document(lstrip(text))

\* child.tag[child.tag.rfind('}')+1:] for the tags of the model
local_name(tag) ==
    CASE tag = "{ns}Event"     -> "Event"
      [] tag = "{ns}System"    -> "System"
      [] tag = "{ns}Provider"  -> "Provider"
      [] tag = "{ns}EventID"   -> "EventID"
      [] tag = "{ns}Level"     -> "Level"
      [] tag = "{ns}EventData" -> "EventData"
      [] tag = "{ns}Data"      -> "Data"
      [] OTHER                 -> tag

\* the last position of node's children whose local tag name is t
last_child(node, t) ==
    CHOOSE i \in DOMAIN node.children :
        /\ local_name(node.children[i].tag) = t
        /\ \A j \in DOMAIN node.children :
              local_name(node.children[j].tag) = t => j <= i

\* XmlElement(root).__children: local tag name -> the last child with that tag
XmlElement(node) ==
    [t \in {local_name(node.children[i].tag) : i \in DOMAIN node.children} |->
        node.children[last_child(node, t)]]

\* XmlElement.__getitem__
getitem(node, item) == XmlElement(node)[item]

(***************************************************************************)
(* EventRecord (lines 34-89).  A record value is                            *)
(*   id, timestamp, data, parsed, attrib : the private fields               *)
(*   xml_runs : how often etree.XML ran on it: "none", "one" or "many"      *)
(*              (a history field, the program does not hold it)            *)
(* A property read returns the record as the read left it, the exception    *)
(* it raised ("" for none) and the text it returned.                        *)
(***************************************************************************)
AttribKeys == {"EventID", "Level", "Provider"}

EventRecord(record) ==
    [id        |-> record.event_record_id,
     timestamp |-> record.timestamp,
     data      |-> record.data,
     parsed    |-> FALSE,
     attrib    |-> [k \in {} |-> <<>>],
     xml_runs  |-> "none"]

\* lines 87-89: the three values stored into __attrib
attrib_of(root) ==
    [k \in AttribKeys |->
       CASE k = "EventID"  -> getitem(getitem(root, "System"), "EventID").text
         [] k = "Level"    -> getitem(getitem(root, "System"), "Level").text
         [] k = "Provider" -> getitem(getitem(root, "System"), "Provider").attrib["Name"]]

\* lines 85-89 on the text left after line 84
decode_text(text, tree) ==
    IF ~tree.ok
    THEN [data |-> text, ok |-> FALSE, attrib |-> [k \in {} |-> <<>>]]
    ELSE [data |-> text, ok |-> TRUE, attrib |-> attrib_of(tree)]

\* lines 83-84: everything up to and including the first "?>" is dropped
strip_at(data, idx) == IF idx # -1 THEN slice_from(data, idx + 2) ELSE data

strip_instruction(data) == strip_at(data, find(data, <<"?", ">">>))

decode_stripped(text) == decode_text(text, etree_XML(text))

\* lines 82-89 on the text a record holds: the text it is left with, whether
\* etree.XML accepted it, and the values stored into __attrib
decode(data) == decode_stripped(strip_instruction(data))

\* the texts a record of the model can hold: a payload, or what decoding left of it
DataTexts ==
    {Payloads[i] : i \in DOMAIN Payloads} \cup {decode(Payloads[i]).data : i \in DOMAIN Payloads}

\* decode, tabulated once over DataTexts
decoded == [d \in DataTexts |-> decode(d)]

\* etree.XML ran once more
once_more(runs) == IF runs = "none" THEN "one" ELSE "many"

\* the record after lines 82-89 ran on it, and the exception raised
parse_with(r, d) ==
    IF ~d.ok
    THEN [rec |-> [r EXCEPT !.data = d.data,
                            !.xml_runs = once_more(r.xml_runs)],
          exc |-> "XMLSyntaxError"]
    ELSE [rec |-> [r EXCEPT !.data = d.data,
                            !.xml_runs = once_more(r.xml_runs),
                            !.attrib = d.attrib],
          exc |-> ""]

\* EventRecord.__parse_data: the record after the call, and the exception raised
parse_data(r) ==
    IF r.parsed
    THEN [rec |-> r, exc |-> ""]
    ELSE parse_with(r, decoded[r.data])

\* EventRecord.data
EventRecord_data(r) == [rec |-> r, exc |-> "", val |-> r.data]

\* return self.__attrib[key], after __parse_data returned p
attrib_read(p, key) ==
    IF p.exc # "" THEN [rec |-> p.rec, exc |-> p.exc, val |-> <<>>]
    ELSE [rec |-> p.rec, exc |-> "", val |-> p.rec.attrib[key]]

\* EventRecord.EventID
EventID(r) == attrib_read(parse_data(r), "EventID")

\* EventRecord.Provider
Provider(r) == attrib_read(parse_data(r), "Provider")

Digits == <<"0", "1", "2", "3", "4", "5", "6", "7", "8", "9">>

IsDigit(c) == \E d \in DOMAIN Digits : Digits[d] = c

DigitValue(c) == (CHOOSE d \in DOMAIN Digits : Digits[d] = c) - 1

\* int(text) succeeds on a non-empty run of decimal digits
int_ok(text) == text # <<>> /\ \A i \in DOMAIN text : IsDigit(text[i])

RECURSIVE int(_)
int(text) ==
    IF text = <<>> THEN 0
    ELSE 10 * int(SubSeq(text, 1, Len(text) - 1)) + DigitValue(text[Len(text)])

\* the dict `levels` of EventRecord.Level
levels ==
    [n \in 0..5 |->
        CASE n = 0 -> "LogAlways"
          [] n = 1 -> "Critical"
          [] n = 2 -> "Error"
          [] n = 3 -> "Warning"
          [] n = 4 -> "Informational"
          [] n = 5 -> "Verbose"]

\* return levels[level_id]: the name as a one-symbol text, KeyError for a missing key
levels_getitem(rec, level_id) ==
    IF level_id \in DOMAIN levels
    THEN [rec |-> rec, exc |-> "", val |-> <<levels[level_id]>>]
    ELSE [rec |-> rec, exc |-> "KeyError", val |-> <<>>]

\* lines 75-76, after __parse_data returned p
level_read(p) ==
    IF p.exc # "" THEN [rec |-> p.rec, exc |-> p.exc, val |-> <<>>]
    ELSE IF ~int_ok(p.rec.attrib["Level"])
    THEN [rec |-> p.rec, exc |-> "ValueError", val |-> <<>>]
    ELSE levels_getitem(p.rec, int(p.rec.attrib["Level"]))

\* EventRecord.Level
Level(r) == level_read(parse_data(r))

(***************************************************************************)
(* EvtxViewModel (lines 93-181) and EvtxView (lines 184-236).  One value    *)
(* holds both: the view owns exactly one model.                             *)
(*   filename, records (dict id -> EventRecord), record_ids (list),         *)
(*   highlighted_row (None or a row), currentIndex (the view's current      *)
(*   row, None before any setCurrentIndex)                                  *)
(***************************************************************************)
\* list.sort() on a list of ints: insertion of x into an ascending list
RECURSIVE insert_sorted(_, _)
insert_sorted(x, l) ==
    IF l = <<>> THEN <<x>>
    ELSE IF x < Head(l) THEN <<x>> \o l
    ELSE <<Head(l)>> \o insert_sorted(x, Tail(l))

RECURSIVE sort(_)
sort(l) == IF l = <<>> THEN <<>> ELSE insert_sorted(Head(l), sort(Tail(l)))

\* dict[key] = value
dict_set(d, key, value) ==
    [k \in DOMAIN d \cup {key} |-> IF k = key THEN value ELSE d[k]]

EmptyDict == [k \in {} |-> 0]

\* the for loop of load_data from item k on; a failing item raises out of it
RECURSIVE load_loop(_, _, _, _)
load_loop(output, k, records, record_ids) ==
    IF k > Len(output)
    THEN [exc |-> "", records |-> records, record_ids |-> record_ids]
    ELSE IF output[k].error
    THEN [exc |-> "RuntimeError", records |-> records, record_ids |-> record_ids]
    ELSE load_loop(output, k + 1,
                   dict_set(records, output[k].event_record_id, EventRecord(output[k])),
                   Append(record_ids, output[k].event_record_id))

\* EvtxViewModel.load_data on what the parser yields for the file
\* line 127, which a raising loop never reaches
sort_ids(l) == IF l.exc # "" THEN l ELSE [l EXCEPT !.record_ids = sort(l.record_ids)]

\* a load that leaves the ids in delivery order
load_data_unsorted(output) == load_loop(output, 1, EmptyDict, <<>>)

load_data(output) == sort_ids(load_loop(output, 1, EmptyDict, <<>>))

\* EvtxView(filename): the view with its freshly loaded model
view_of(filename, l) ==
    [exc  |-> l.exc,
     view |-> [filename        |-> filename,
               records         |-> l.records,
               record_ids      |-> l.record_ids,
               highlighted_row |-> None,
               currentIndex    |-> None]]

EvtxView(filename, output) == view_of(filename, load_data(output))

\* EvtxViewModel.rowCount
rowCount(m) == Len(m.record_ids)

\* EvtxViewModel.get_records: the records in listing order
get_records(m) == [i \in 1..Len(m.record_ids) |-> m.records[m.record_ids[i]]]

\* the getters of EvtxViewModel.__columns, by 0-based column
ColumnNames == <<"ID", "TimeCreated", "Provider", "EventID", "Level", "Data">>

columnCount == Len(ColumnNames)

column_getter(column, r) ==
    CASE ColumnNames[column + 1] = "ID"          -> [rec |-> r, exc |-> "", val |-> <<r.id>>]
      [] ColumnNames[column + 1] = "TimeCreated" -> [rec |-> r, exc |-> "", val |-> <<r.timestamp>>]
      [] ColumnNames[column + 1] = "Provider"    -> Provider(r)
      [] ColumnNames[column + 1] = "EventID"     -> EventID(r)
      [] ColumnNames[column + 1] = "Level"       -> Level(r)
      [] ColumnNames[column + 1] = "Data"        -> EventRecord_data(r)

\* EvtxViewModel.data(index, Qt.DisplayRole) for a valid index (0-based row, column)
cell_of(m, record_id, got) ==
    [view |-> [m EXCEPT !.records[record_id] = got.rec],
     exc  |-> got.exc,
     val  |-> got.val]

model_data(m, row, column) ==
    cell_of(m, m.record_ids[row + 1],
            column_getter(column, m.records[m.record_ids[row + 1]]))

\* EvtxViewModel.set_highlighted_row (the dataChanged signals carry no state)
set_highlighted_row(m, row) == [m EXCEPT !.highlighted_row = row]

\* EvtxViewModel.remove_highlight
remove_highlight(m) == set_highlighted_row(m, None)

\* list.index(x): the 0-based position of the first x, -1 standing for ValueError
list_index(l, x) ==
    LET hits == {i \in DOMAIN l : l[i] = x}
    IN  IF hits = {} THEN -1 ELSE (CHOOSE i \in hits : \A j \in hits : i <= j) - 1

\* EvtxView.scroll_to_record_id
\* lines 208-218 with the row that list.index returned
scroll_to_row(m, row) ==
    IF row = -1
    THEN m
    ELSE [set_highlighted_row(m, row) EXCEPT !.currentIndex = row]

\* a lookup that drops the highlight when the id is not found
scroll_to_record_id_clearing(m, record_id) ==
    IF list_index(m.record_ids, record_id) = -1
    THEN remove_highlight(m)
    ELSE scroll_to_row(m, list_index(m.record_ids, record_id))

scroll_to_record_id(m, record_id) ==
    scroll_to_row(m, list_index(m.record_ids, record_id))

(***************************************************************************)
(* The program state.                                                       *)
(***************************************************************************)
VARIABLES
    disk,              \* filename -> what PyEvtxParser yields for that file
    views,             \* view id -> EvtxView, for the views that exist
    tabs,              \* QTabWidget: the pages in tab order (view ids)
    currentTab,        \* QTabWidget.currentIndex(), 0-based, -1 with no tab
    files,             \* MainWindow.__files: filename -> tab index
    searchInEVTData,   \* the checkable menu action "actionSearchInEVTData"
    found,             \* MainWindow.found: list of <<record id, timestamp>>
    cur_search_index,  \* MainWindow.cur_search_index
    cur_evtx_view,     \* MainWindow.cur_evtx_view (a view id, 0 before any search)
    msgbox,            \* TRUE while the search result box is shown
    last               \* the handler that ran last, its argument, and the exception
                       \* it raised or the message it showed ("" for neither)

vars == <<disk, views, tabs, currentTab, files, searchInEVTData, found,
          cur_search_index, cur_evtx_view, msgbox, last>>

\* search terms the user may type ("" included: the dialog accepts it)
Terms == { <<>>, <<"S", "e">>, <<"4">>, <<"m", "l">>, <<"z">> }

Done(op, arg, exc) == [op |-> op, arg |-> arg, exc |-> exc]

(***************************************************************************)
(* QTabWidget as the handlers use it (lines 285, 289, 293, 323).            *)
(***************************************************************************)
\* addTab returns the new tab's index
addTab_index(t) == Len(t)

\* setCurrentIndex ignores an index that is no tab
setCurrentIndex(t, cur, index) ==
    IF index \in 0..(Len(t) - 1) THEN index ELSE cur

\* the pages after removeTab(index)
removeTab(t, index) ==
    [i \in 1..(Len(t) - 1) |-> IF i <= index THEN t[i] ELSE t[i + 1]]

\* currentIndex after removeTab(index): the tab to the right takes over
current_after_remove(t, cur, index) ==
    IF index < cur THEN cur - 1
    ELSE IF index = cur /\ cur = Len(t) - 1 THEN cur - 1
    ELSE cur

\* a view id no existing view has
fresh_view == CHOOSE v \in 1..(Cardinality(DOMAIN views) + 1) : v \notin DOMAIN views

(***************************************************************************)
(* MainWindow (lines 240-393).                                              *)
(***************************************************************************)
\* lines 275-289 with the EvtxView that line 278 made (or the exception it raised)
open_new_tab(filename, made, v, index) ==
    IF made.exc # ""
    THEN /\ last' = Done("open_file", 0, made.exc)
         /\ UNCHANGED <<views, tabs, files, currentTab>>
    ELSE /\ views' = dict_set(views, v, made.view)
         /\ tabs' = Append(tabs, v)
         /\ files' = dict_set(files, filename, index)
         /\ currentTab' = setCurrentIndex(Append(tabs, v), currentTab, index)
         /\ last' = Done("open_file", 0, "")

\* MainWindow.open_file
open_file(filename) ==
    /\ ~msgbox
    /\ IF filename \in DOMAIN files
       THEN /\ currentTab' = setCurrentIndex(tabs, currentTab, files[filename])
            /\ last' = Done("open_file", 0, "")
            /\ UNCHANGED <<views, tabs, files>>
       ELSE /\ Len(tabs) < MaxTabs
            /\ open_new_tab(filename, EvtxView(filename, disk[filename]),
                            fresh_view, addTab_index(tabs))
    /\ UNCHANGED <<disk, searchInEVTData, found, cur_search_index, cur_evtx_view, msgbox>>

\* the dict rebuilt by close_tab
files_after_close(f, index) ==
    [name \in {n \in DOMAIN f : f[n] # index} |-> f[name]]

\* MainWindow.close_tab, on tabCloseRequested(index) of an existing tab
close_tab(index) ==
    /\ ~msgbox
    /\ index \in 0..(Len(tabs) - 1)
    /\ tabs' = removeTab(tabs, index)
    /\ currentTab' = current_after_remove(tabs, currentTab, index)
    /\ files' = files_after_close(files, index)
    /\ views' = [v \in DOMAIN views \ {tabs[index + 1]} |-> views[v]]
    /\ last' = Done("close_tab", index, "")
    /\ UNCHANGED <<disk, searchInEVTData, found, cur_search_index, cur_evtx_view, msgbox>>

\* the user clicks a tab
select_tab(index) ==
    /\ ~msgbox
    /\ index \in 0..(Len(tabs) - 1)
    /\ currentTab' = setCurrentIndex(tabs, currentTab, index)
    /\ last' = Done("select_tab", index, "")
    /\ UNCHANGED <<disk, views, tabs, files, searchInEVTData, found,
                   cur_search_index, cur_evtx_view, msgbox>>

\* the user checks or unchecks "Search in EVT data"
toggle_searchInEVTData ==
    /\ ~msgbox
    /\ searchInEVTData' = ~searchInEVTData
    /\ last' = Done("toggle", 0, "")
    /\ UNCHANGED <<disk, views, tabs, currentTab, files, found,
                   cur_search_index, cur_evtx_view, msgbox>>

\* a match that looks into the data text whatever the check box says
match_eventid_any_data(e, text, checked) ==
    IF e.exc # "" THEN [hit |-> FALSE, rec |-> e.rec, exc |-> e.exc]
    ELSE IF contains(text, e.val) THEN [hit |-> TRUE, rec |-> e.rec, exc |-> ""]
    ELSE [hit |-> contains(text, EventRecord_data(e.rec).val),
          rec |-> e.rec, exc |-> ""]

\* line 334 from `text in record.EventID` on, e being what that read returned
match_eventid(e, text, checked) ==
    IF e.exc # "" THEN [hit |-> FALSE, rec |-> e.rec, exc |-> e.exc]
    ELSE IF contains(text, e.val) THEN [hit |-> TRUE, rec |-> e.rec, exc |-> ""]
    ELSE [hit |-> checked /\ contains(text, EventRecord_data(e.rec).val),
          rec |-> e.rec, exc |-> ""]

\* line 334, p being what the read of record.Provider returned
match_provider(p, text, checked) ==
    IF p.exc # "" THEN [hit |-> FALSE, rec |-> p.rec, exc |-> p.exc]
    ELSE IF contains(text, p.val) THEN [hit |-> TRUE, rec |-> p.rec, exc |-> ""]
    ELSE match_eventid(EventID(p.rec), text, checked)

\* the condition of line 334 on one record: whether it matched, the record as
\* the reads left it, and the exception a read raised
record_matches(r, text, checked) == match_provider(Provider(r), text, checked)

\* the loop of action_search over get_records(), from listing position i on
RECURSIVE search_loop(_, _, _, _, _)
RECURSIVE search_step(_, _, _, _, _, _)
search_step(m, i, text, checked, acc, t) ==
    IF t.exc # ""
    THEN [view |-> [m EXCEPT !.records[m.record_ids[i]] = t.rec], found |-> acc, exc |-> t.exc]
    ELSE search_loop([m EXCEPT !.records[m.record_ids[i]] = t.rec], i + 1, text, checked,
                     IF t.hit THEN Append(acc, <<t.rec.id, t.rec.timestamp>>) ELSE acc)

search_loop(m, i, text, checked, acc) ==
    IF i > Len(m.record_ids)
    THEN [view |-> m, found |-> acc, exc |-> ""]
    ELSE search_step(m, i, text, checked, acc,
                     record_matches(m.records[m.record_ids[i]], text, checked))

\* lines 338-346 and display_search_results, s being what the loop produced
search_done(v, s, text) ==
    /\ views' = [views EXCEPT ![v] = s.view]
    /\ IF s.exc # ""
       THEN /\ last' = Done("action_search", text, s.exc)
            /\ UNCHANGED <<found, cur_search_index, cur_evtx_view, msgbox>>
       ELSE IF s.found # <<>>
       THEN /\ found' = s.found
            /\ cur_evtx_view' = v
            /\ cur_search_index' = 0
            /\ msgbox' = TRUE
            /\ last' = Done("action_search", text, "")
       ELSE /\ last' = Done("action_search", text, "Nothing found.")
            /\ UNCHANGED <<found, cur_search_index, cur_evtx_view, msgbox>>

\* MainWindow.action_search with the text the input dialog returned
action_search(text) ==
    /\ ~msgbox
    /\ IF DOMAIN files = {}
       THEN /\ last' = Done("action_search", 0, "No file opened!")
            /\ UNCHANGED <<views, found, cur_search_index, cur_evtx_view, msgbox>>
       ELSE IF text = <<>>
       THEN /\ last' = Done("action_search", text, "")
            /\ UNCHANGED <<views, found, cur_search_index, cur_evtx_view, msgbox>>
       ELSE IF currentTab = -1
       THEN /\ last' = Done("action_search", text, "AttributeError")
            /\ UNCHANGED <<views, found, cur_search_index, cur_evtx_view, msgbox>>
       ELSE search_done(tabs[currentTab + 1],
                        search_loop(views[tabs[currentTab + 1]], 1, text, searchInEVTData, <<>>),
                        text)
    /\ UNCHANGED <<disk, tabs, currentTab, files, searchInEVTData>>

\* a cursor that stops at either end
navigate_index_no_wrap(index, direction, n) ==
    IF direction = -1
    THEN IF index - 1 < 0 THEN 0 ELSE index - 1
    ELSE IF direction = 1
    THEN IF index + 1 >= n THEN n - 1 ELSE index + 1
    ELSE index

\* the cursor arithmetic of navigate_search
navigate_index(index, direction, n) ==
    IF direction = -1
    THEN IF index - 1 < 0 THEN n - 1 ELSE index - 1
    ELSE IF direction = 1
    THEN (index + 1) % n
    ELSE index

\* lines 390-393 with the cursor that lines 382-388 computed
navigate_to(index) ==
    /\ cur_search_index' = index
    /\ views' = [views EXCEPT ![cur_evtx_view] =
                    scroll_to_record_id(@, found[index + 1][1])]

\* MainWindow.navigate_search, on the Previous (-1) or Next (1) button
navigate_search(direction) ==
    /\ msgbox
    /\ navigate_to(navigate_index(cur_search_index, direction, Len(found)))
    /\ last' = Done("navigate_search", direction, "")
    /\ UNCHANGED <<disk, tabs, currentTab, files, searchInEVTData, found,
                   cur_evtx_view, msgbox>>

\* close_searchbox, on the Close button
close_searchbox ==
    /\ msgbox
    /\ views' = [views EXCEPT ![cur_evtx_view] = remove_highlight(@)]
    /\ msgbox' = FALSE
    /\ last' = Done("close_searchbox", 0, "")
    /\ UNCHANGED <<disk, tabs, currentTab, files, searchInEVTData, found,
                   cur_search_index, cur_evtx_view>>

\* one paint of the table: Qt asks EvtxViewModel.data for every cell, row by
\* row; a cell whose getter raises stays empty and the paint goes on
RECURSIVE paint_loop(_, _, _)
RECURSIVE paint_step(_, _, _)
paint_step(got, cell, exc) ==
    paint_loop(got.view, cell + 1, IF exc = "" THEN got.exc ELSE exc)

paint_loop(m, cell, exc) ==
    IF cell >= rowCount(m) * columnCount
    THEN [view |-> m, exc |-> exc]
    ELSE paint_step(model_data(m, cell \div columnCount, cell % columnCount), cell, exc)

painted(v, got) ==
    /\ views' = [views EXCEPT ![v] = got.view]
    /\ last' = Done("paint", 0, got.exc)

\* Qt paints the table of the current tab
paint ==
    /\ currentTab # -1
    /\ rowCount(views[tabs[currentTab + 1]]) > 0
    /\ painted(tabs[currentTab + 1], paint_loop(views[tabs[currentTab + 1]], 0, ""))
    /\ UNCHANGED <<disk, tabs, currentTab, files, searchInEVTData, found,
                   cur_search_index, cur_evtx_view, msgbox>>

\* the window starts with no tab, no file and no search
Empty ==
    /\ views = EmptyDict
    /\ tabs = <<>>
    /\ currentTab = -1
    /\ files = [name \in {} |-> 0]
    /\ found = <<>>
    /\ cur_search_index = 0
    /\ cur_evtx_view = 0
    /\ msgbox = FALSE
    /\ last = Done("init", 0, "")

\* two files on disk: a.evtx is one of a few outputs (out of order, a repeated
\* id, a record that cannot be read), b.evtx holds one record
SampleOutputs ==
    { <<ParserRecord(2, 1), ParserRecord(1, 2)>>,
      <<ParserRecord(1, 1), ParserRecord(1, 2)>>,
      <<ParserRecord(1, 1), ParserFailure(2)>> }

Disks ==
    { [f \in {"a.evtx", "b.evtx"} |-> IF f = "a.evtx" THEN a ELSE <<ParserRecord(1, 1)>>] :
        a \in SampleOutputs }

Init ==
    /\ disk \in Disks
    /\ searchInEVTData \in BOOLEAN
    /\ Empty

Next ==
    \/ \E filename \in DOMAIN disk : open_file(filename)
    \/ \E index \in 0..(MaxTabs - 1) : close_tab(index)
    \/ \E index \in 0..(MaxTabs - 1) : select_tab(index)
    \/ toggle_searchInEVTData
    \/ \E text \in Terms : action_search(text)
    \/ \E direction \in {-1, 1} : navigate_search(direction)
    \/ close_searchbox
    \/ paint

Spec == Init /\ [][Next]_vars

(***************************************************************************)
(* The window on one file, which holds any parser output within the bounds. *)
(***************************************************************************)
OneFileDisks == { [f \in {"a.evtx"} |-> a] : a \in ParserOutputs }

SearchInit ==
    /\ disk \in OneFileDisks
    /\ searchInEVTData \in BOOLEAN
    /\ Empty

SearchSpec == SearchInit /\ [][Next]_vars

(***************************************************************************)
(* The table view alone: one EvtxView is built on a file and its methods    *)
(* are called one at a time.                                                *)
(***************************************************************************)
TheView == 1

MainWindowIdle ==
    UNCHANGED <<disk, tabs, currentTab, files, searchInEVTData, found,
                cur_search_index, cur_evtx_view, msgbox>>

view_made(made) ==
    IF made.exc # ""
    THEN /\ last' = Done("EvtxView", 0, made.exc)
         /\ UNCHANGED views
    ELSE /\ views' = dict_set(views, TheView, made.view)
         /\ last' = Done("EvtxView", 0, "")

\* EvtxView(filename) is constructed
new_view(filename) ==
    /\ TheView \notin DOMAIN views
    /\ view_made(EvtxView(filename, disk[filename]))
    /\ MainWindowIdle

cell_read(got) ==
    /\ views' = [views EXCEPT ![TheView] = got.view]
    /\ last' = Done("data", 0, got.exc)

\* EvtxViewModel.data(index, Qt.DisplayRole) is called for one cell
data(row, column) ==
    /\ TheView \in DOMAIN views
    /\ row \in 0..(rowCount(views[TheView]) - 1)
    /\ cell_read(model_data(views[TheView], row, column))
    /\ MainWindowIdle

\* EvtxView.scroll_to_record_id(record_id) is called
scroll(record_id) ==
    /\ TheView \in DOMAIN views
    /\ views' = [views EXCEPT ![TheView] = scroll_to_record_id(@, record_id)]
    /\ last' = Done("scroll_to_record_id", 0,
                    IF list_index(views[TheView].record_ids, record_id) = -1
                    THEN "Record ID not found" ELSE "")
    /\ MainWindowIdle

\* EvtxViewModel.remove_highlight() is called
unhighlight ==
    /\ TheView \in DOMAIN views
    /\ views' = [views EXCEPT ![TheView] = remove_highlight(@)]
    /\ last' = Done("remove_highlight", 0, "")
    /\ MainWindowIdle

ViewInit ==
    /\ disk \in OneFileDisks
    /\ searchInEVTData = FALSE
    /\ Empty

ViewNext ==
    \/ new_view("a.evtx")
    \/ \E row \in 0..(MaxRecords - 1), column \in 0..(columnCount - 1) : data(row, column)
    \/ \E record_id \in 1..(MaxId + 1) : scroll(record_id)
    \/ unhighlight

ViewSpec == ViewInit /\ [][ViewNext]_vars

(***************************************************************************)
(* Vocabulary of the properties.                                            *)
(***************************************************************************)
\* term occurs in text as a contiguous run
Occurs(term, text) ==
    \E k \in 1..(Len(text) - Len(term) + 1) : SubSeq(text, k, k + Len(term) - 1) = term

\* what the parser delivered for the file a view shows
Delivered(v) == disk[views[v].filename]

Readable(out) == {k \in DOMAIN out : ~out[k].error}

PairwiseDistinct(out) ==
    \A j, k \in DOMAIN out : j # k => out[j].event_record_id # out[k].event_record_id

\* the last item the parser delivered under record id rid
LaterOccurrence(out, rid) ==
    out[CHOOSE k \in Readable(out) :
          /\ out[k].event_record_id = rid
          /\ \A j \in Readable(out) : out[j].event_record_id = rid => j <= k]

\* str(n) for the level numbers of the model
str(n) == IF n < 10 THEN <<Digits[n + 1]>> ELSE <<Digits[(n \div 10) + 1], Digits[(n % 10) + 1]>>

LevelNames == <<"LogAlways", "Critical", "Error", "Warning", "Informational", "Verbose">>

\* the ids of a search result, in result order
ResultIds(result) == [i \in DOMAIN result |-> result[i][1]]

Ascending(ids) == \A i, j \in DOMAIN ids : i < j => ids[i] <= ids[j]

StrictlyAscending(ids) == \A i, j \in DOMAIN ids : i < j => ids[i] < ids[j]

\* a step of action_search(text) that got as far as the loop over the records
Searches(text) ==
    /\ text # <<>>
    /\ DOMAIN files # {}
    /\ currentTab # -1
    /\ last'.op = "action_search"
    /\ last'.arg = text
    /\ action_search(text)

\* term occurs in the provider name or in the EventID of record r
InProviderOrEventID(term, r) ==
    \/ Occurs(term, decoded[r.data].attrib["Provider"])
    \/ Occurs(term, decoded[r.data].attrib["EventID"])

\* the result list of the search step: empty when "Nothing found." was shown
SearchResult == IF msgbox' THEN found' ELSE <<>>

(***************************************************************************)
(* C1. After a load over N records with pairwise distinct ids, delivered in *)
(* any order, the full listing holds exactly those N records, each once, in *)
(* strictly ascending id order, and rowCount is N.                          *)
(***************************************************************************)
C1_ListingSortedAndComplete ==
    \A v \in DOMAIN views :
        (Readable(Delivered(v)) = DOMAIN Delivered(v) /\ PairwiseDistinct(Delivered(v))) =>
            /\ rowCount(views[v]) = Len(Delivered(v))
            /\ StrictlyAscending([i \in DOMAIN get_records(views[v]) |-> get_records(views[v])[i].id])
            /\ \A k \in DOMAIN Delivered(v) :
                  Cardinality({i \in DOMAIN get_records(views[v]) :
                                  /\ get_records(views[v])[i].id = Delivered(v)[k].event_record_id
                                  /\ get_records(views[v])[i].timestamp = Delivered(v)[k].timestamp}) = 1

\* three distinct ids delivered out of order, loaded into a view
C1_Witness ==
    \E v \in DOMAIN views :
        /\ Len(Delivered(v)) = 3
        /\ Readable(Delivered(v)) = DOMAIN Delivered(v)
        /\ PairwiseDistinct(Delivered(v))
        /\ Delivered(v)[1].event_record_id > Delivered(v)[2].event_record_id

(***************************************************************************)
(* C2. For any one record, the decoding of its XML into EventID, Provider   *)
(* and Level runs at most once, whatever the sequence of reads.             *)
(***************************************************************************)
C2_DecodedAtMostOnce ==
    \A v \in DOMAIN views : \A rid \in DOMAIN views[v].records :
        views[v].records[rid].xml_runs # "many"

(***************************************************************************)
(* C3. The raw text is preserved: what `data` returns for a record equals   *)
(* what it returned right after the load, whatever was read in between,     *)
(* also when the payload begins with a processing instruction.              *)
(***************************************************************************)
C3_RawTextPreserved ==
    \A v \in DOMAIN views : \A rid \in DOMAIN views[v].records :
        EventRecord_data(views[v].records[rid]).val = LaterOccurrence(Delivered(v), rid).data

(***************************************************************************)
(* C4. Reading Level gives LogAlways .. Verbose for the levels 0..5 and     *)
(* the numeric string for any other numeric level, and does not fail.       *)
(***************************************************************************)
C4_LevelNameOrNumber ==
    \A v \in DOMAIN views : \A rid \in DOMAIN views[v].records :
        /\ Level(views[v].records[rid]).exc = ""
        /\ Level(views[v].records[rid]).val =
              IF int(decoded[views[v].records[rid].data].attrib["Level"]) \in 0..5
              THEN <<LevelNames[int(decoded[views[v].records[rid].data].attrib["Level"]) + 1]>>
              ELSE str(int(decoded[views[v].records[rid].data].attrib["Level"]))

(***************************************************************************)
(* C5. scroll_to_record_id on an id that is not in the index reports that   *)
(* and changes neither the highlighted row nor the current selection; on an *)
(* id that is in the index it highlights and selects the row whose record   *)
(* is the record with that id in the full listing.                          *)
(***************************************************************************)
C5_LookupById ==
    [][\A record_id \in 1..(MaxId + 1) :
          scroll(record_id) =>
             IF record_id \notin DOMAIN views[TheView].records
             THEN /\ views' = views
                  /\ last'.exc = "Record ID not found"
             ELSE /\ last'.exc = ""
                  /\ views'[TheView].highlighted_row \in 0..(rowCount(views'[TheView]) - 1)
                  /\ views'[TheView].currentIndex = views'[TheView].highlighted_row
                  /\ get_records(views'[TheView])[views'[TheView].highlighted_row + 1].id = record_id
                  /\ get_records(views'[TheView])[views'[TheView].highlighted_row + 1]
                        = views[TheView].records[record_id]]_vars

\* a lookup missed while a row was highlighted
C5_Witness ==
    /\ last.op = "scroll_to_record_id"
    /\ last.exc = "Record ID not found"
    /\ TheView \in DOMAIN views
    /\ views[TheView].highlighted_row # None

(***************************************************************************)
(* C6. When a record id is delivered more than once, the index holds it     *)
(* exactly once (one row of the listing), bound to the later record.        *)
(***************************************************************************)
C6_DuplicateIdHeldOnce ==
    \A v \in DOMAIN views : \A rid \in DOMAIN views[v].records :
        /\ Cardinality({i \in DOMAIN views[v].record_ids : views[v].record_ids[i] = rid}) = 1
        /\ views[v].records[rid].timestamp = LaterOccurrence(Delivered(v), rid).timestamp

(***************************************************************************)
(* C7. A record that cannot be read never aborts the load of the file: the  *)
(* load completes and every readable record is in the index.                *)
(***************************************************************************)
C7_LoadSurvivesBadRecord ==
    /\ last.op = "open_file" => last.exc = ""
    /\ \A v \in DOMAIN views : \A k \in Readable(Delivered(v)) :
          Delivered(v)[k].event_record_id \in DOMAIN views[v].records

(***************************************************************************)
(* C8, as claimed. A search for a non-empty term returns exactly the        *)
(* records of the current file in whose provider name, EventID or raw text  *)
(* the term occurs, in ascending record-id order.                           *)
(***************************************************************************)
C8_SearchAnyOfThree ==
    [][\A text \in Terms :
          Searches(text) =>
             /\ Ascending(ResultIds(SearchResult))
             /\ \A i \in DOMAIN SearchResult :
                   SearchResult[i][2] = views[tabs[currentTab + 1]].records[SearchResult[i][1]].timestamp
             /\ LET hit(rid) ==
                        \/ InProviderOrEventID(text, views[tabs[currentTab + 1]].records[rid])
                        \/ Occurs(text, LaterOccurrence(Delivered(tabs[currentTab + 1]), rid).data)
                IN  ResultIds(SearchResult) = SelectSeq(views[tabs[currentTab + 1]].record_ids, hit)]_vars

(***************************************************************************)
(* C8, amended. A search for a non-empty term returns, in listing order     *)
(* (ascending record id), exactly the rows of the current file's listing    *)
(* in whose provider name or EventID the term occurs, or, only when "Search *)
(* in EVT data" is checked, in whose data text as the decoded record holds  *)
(* it (everything up to the first "?>" removed) the term occurs.            *)
(***************************************************************************)
C8_SearchWithOption ==
    [][\A text \in Terms :
          Searches(text) =>
             /\ Ascending(ResultIds(SearchResult))
             /\ \A i \in DOMAIN SearchResult :
                   SearchResult[i][2] = views[tabs[currentTab + 1]].records[SearchResult[i][1]].timestamp
             /\ LET hit(rid) ==
                        \/ InProviderOrEventID(text, views[tabs[currentTab + 1]].records[rid])
                        \/ /\ searchInEVTData
                           /\ Occurs(text, decoded[views[tabs[currentTab + 1]].records[rid].data].data)
                IN  ResultIds(SearchResult) = SelectSeq(views[tabs[currentTab + 1]].record_ids, hit)]_vars

\* a search with the option checked found two records and left one out
C8_Witness ==
    /\ last.op = "action_search"
    /\ msgbox
    /\ searchInEVTData
    /\ Len(found) = 2
    /\ found[1][1] < found[2][1]
    /\ Cardinality(DOMAIN views[cur_evtx_view].records) = 3

(***************************************************************************)
(* C9. Every filename in the open-files map is mapped to the position of    *)
(* that file's own tab, and no file has two tabs.                           *)
(***************************************************************************)
C9_FilesMapMatchesTabs ==
    /\ \A f \in DOMAIN files :
          /\ files[f] \in 0..(Len(tabs) - 1)
          /\ views[tabs[files[f] + 1]].filename = f
    /\ \A i, j \in DOMAIN tabs :
          i # j => views[tabs[i]].filename # views[tabs[j]].filename

(***************************************************************************)
(* C10. While a result list of length n >= 1 is shown, the cursor stays in  *)
(* 0..n-1; Next from the last result wraps to the first and Previous from   *)
(* the first to the last; Previous undoes Next; after each press the        *)
(* highlighted row is the row of the result the cursor points at.           *)
(***************************************************************************)
C10_NavigationWraps ==
    [][/\ msgbox' => (Len(found') >= 1 /\ cur_search_index' \in 0..(Len(found') - 1))
       /\ \A direction \in {-1, 1} :
             navigate_search(direction) =>
                /\ (direction = 1 /\ cur_search_index = Len(found) - 1) => cur_search_index' = 0
                /\ (direction = -1 /\ cur_search_index = 0) => cur_search_index' = Len(found) - 1
                /\ direction = 1 =>
                      navigate_index(cur_search_index', -1, Len(found)) = cur_search_index
                /\ views'[cur_evtx_view].highlighted_row \in 0..(rowCount(views'[cur_evtx_view]) - 1)
                /\ views'[cur_evtx_view].record_ids[views'[cur_evtx_view].highlighted_row + 1]
                      = found[cur_search_index' + 1][1]]_vars

\* Next was pressed on the last of several results and the cursor is on the first
C10_Witness ==
    /\ msgbox
    /\ last.op = "navigate_search"
    /\ last.arg = 1
    /\ Len(found) >= 2
    /\ cur_search_index = 0
    /\ views[cur_evtx_view].highlighted_row # None

=============================================================================
